---- MODULE Spec2Model ----
(***************************************************************************)
(* Model of the Nunno Finance gateway (src/main.py): the four service      *)
(* handles built at start-up, the three delegating GET endpoints, the      *)
(* price-history pipeline with its mock fallback, and the two chat         *)
(* endpoints (single-shot and streaming).                                  *)
(*                                                                         *)
(* main.py keeps no mutable state besides the four handles, which are      *)
(* assigned once at import time and only read afterwards, so two requests  *)
(* cannot influence each other.  The model follows one request at a time:  *)
(* what was asked, what the collaborators were called with and answered,   *)
(* and what went back to the client.                                       *)
(*                                                                         *)
(* Numbers: prices are integers (the code converts with float()); the      *)
(* percent change is kept as an exact fraction num/den; timestamps are     *)
(* minutes since 1970-01-01T00:00 and are converted to calendar fields     *)
(* the way strftime()/isoformat() do.                                      *)
(***************************************************************************)
EXTENDS Integers, Sequences, FiniteSets, TLC

VARIABLES technical_service, chat_service, tokenomics_service, news_service,
          request, calls, df, result, response, stream

vars == <<technical_service, chat_service, tokenomics_service, news_service,
          request, calls, df, result, response, stream>>

handles == <<technical_service, chat_service, tokenomics_service, news_service>>

(***************************************************************************)
(* Bounds of the model.                                                    *)
(***************************************************************************)
MaxCandles == 2      \* longest candle series the fetch returns
MaxPrice == 1        \* High, Low and Close range over 0..MaxPrice
MaxChunks == 2       \* longest chunk sequence the assistant streams

(***************************************************************************)
(* Inputs.                                                                 *)
(***************************************************************************)
Tickers == {"BTCUSDT", "ETHUSDT"}
Timeframes == {"24H", "7D", "30D", "1Y", "5Y"}
Intervals == {"15m", "1h"}
CoinIds == {"bitcoin"}
InvestmentAmounts == {1000, 250}
Messages == {"hi", ""}
UserNames == {"User", "Ann"}
UserAges == {18, 30}
Histories == {<<>>, <<[role |-> "user", content |-> "hello"]>>}
Chunks == {"a", "b"}
Prices == 0..MaxPrice
Seeds == {0, 1}

\* time of the first candle: 2023-12-31T23:45, in minutes since the epoch
BaseTimes == {28401105}

(***************************************************************************)
(* Calendar arithmetic behind strftime() and isoformat().                  *)
(***************************************************************************)
DaysOf(t) == t \div 1440
HourOf(t) == (t % 1440) \div 60
MinuteOf(t) == t % 60

\* proleptic Gregorian date of a day number (days since 1970-01-01)
CivilFromDays(days) ==
    LET z == days + 719468
        era == z \div 146097
        doe == z - era * 146097
        yoe == (doe - doe \div 1460 + doe \div 36524 - doe \div 146096) \div 365
        doy == doe - (365 * yoe + yoe \div 4 - yoe \div 100)
        mp == (5 * doy + 2) \div 153
        d == doy - (153 * mp + 2) \div 5 + 1
        m == IF mp < 10 THEN mp + 3 ELSE mp - 9
        y == yoe + era * 400 + (IF m <= 2 THEN 1 ELSE 0)
    IN [year |-> y, month |-> m, day |-> d]

DaysFromCivil(y, m, d) ==
    LET yy == IF m <= 2 THEN y - 1 ELSE y
        era == yy \div 400
        yoe == yy - era * 400
        doy == (153 * (IF m > 2 THEN m - 3 ELSE m + 9) + 2) \div 5 + d - 1
        doe == yoe * 365 + yoe \div 4 - yoe \div 100 + doy
    IN era * 146097 + doe - 719468

MonthAbbr == <<"Jan", "Feb", "Mar", "Apr", "May", "Jun",
               "Jul", "Aug", "Sep", "Oct", "Nov", "Dec">>

\* 1970-01-01 was a Thursday
DayAbbr == <<"Thu", "Fri", "Sat", "Sun", "Mon", "Tue", "Wed">>

Pad2(n) == IF n < 10 THEN "0" \o ToString(n) ELSE ToString(n)

\* strftime("%H:%M")
StrfHM(t) == Pad2(HourOf(t)) \o ":" \o Pad2(MinuteOf(t))

\* strftime("%a %H:%M")
StrfAHM(t) == DayAbbr[(DaysOf(t) % 7) + 1] \o " " \o StrfHM(t)

\* strftime("%b %d")
StrfBD(t) ==
    LET c == CivilFromDays(DaysOf(t))
    IN MonthAbbr[c.month] \o " " \o Pad2(c.day)

\* strftime("%b %d %Y")
StrfBDY(t) == StrfBD(t) \o " " \o ToString(CivilFromDays(DaysOf(t)).year)

\* variant: the date alone, as index.date().isoformat() would give
isoformat_DateOnly(t) ==
    LET c == CivilFromDays(DaysOf(t))
    IN <<c.year, c.month, c.day, 0, 0>>

\* isoformat(): "YYYY-MM-DDTHH:MM:00", kept as its fields <<Y, M, D, H, M>>.
\* The fields are zero-padded to a fixed width in the string, so the order
\* of the strings is the lexicographic order of these tuples.
isoformat(t) ==
    LET c == CivilFromDays(DaysOf(t))
    IN <<c.year, c.month, c.day, HourOf(t), MinuteOf(t)>>

\* the client's parse of an ISO date back to a timestamp
ParseIso(s) == DaysFromCivil(s[1], s[2], s[3]) * 1440 + s[4] * 60 + s[5]

(***************************************************************************)
(* Timeframe resolution (timeframe_map and its .get with a default).       *)
(***************************************************************************)
timeframe_map ==
    ("24H" :> [interval |-> "15m", limit |-> 96]) @@
    ("7D"  :> [interval |-> "1h",  limit |-> 168]) @@
    ("30D" :> [interval |-> "4h",  limit |-> 180]) @@
    ("1Y"  :> [interval |-> "1d",  limit |-> 365])

\* variant: the default of .get is the last entry instead of "24H"
TimeframeConfig_DefaultLast(timeframe) ==
    IF timeframe \in DOMAIN timeframe_map
    THEN timeframe_map[timeframe]
    ELSE timeframe_map["1Y"]

TimeframeConfig(timeframe) ==
    IF timeframe \in DOMAIN timeframe_map
    THEN timeframe_map[timeframe]
    ELSE timeframe_map["24H"]

(***************************************************************************)
(* What fetch_binance_ohlcv_with_fallback can answer: it raises, or it     *)
(* returns a frame of at most MaxCandles rows.  A frame indexed by time    *)
(* has one row per interval, ascending; a frame with a plain integer       *)
(* index (0, 1, ...) is one whose index has no strftime().                 *)
(***************************************************************************)
IntervalMinutes(interval) ==
    IF interval = "15m" THEN 15
    ELSE IF interval = "1h" THEN 60
    ELSE IF interval = "4h" THEN 240
    ELSE 1440

\* a candle's close lies between its low and its high
Ohlc == {c \in [High : Prices, Low : Prices, Close : Prices] :
            c.Low <= c.Close /\ c.Close <= c.High}

NoFrame == [outcome |-> "not_called", index_kind |-> "none", rows |-> <<>>]
RaisedFrame == [outcome |-> "raised", index_kind |-> "none", rows |-> <<>>]

Frame(kind, base, step, f) ==
    [outcome |-> "returned",
     index_kind |-> kind,
     rows |-> [k \in DOMAIN f |->
                 [index |-> IF kind = "datetime" THEN base + (k - 1) * step
                            ELSE k - 1,
                  High |-> f[k].High, Low |-> f[k].Low, Close |-> f[k].Close]]]

FetchOutcomes(interval) ==
    {RaisedFrame} \cup
    UNION { { Frame(kind, base, IntervalMinutes(interval), f) :
                kind \in {"datetime", "range"}, base \in BaseTimes,
                f \in [1..n -> Ohlc] } : n \in 0..MaxCandles }

(***************************************************************************)
(* Exact fractions for percent_change.                                     *)
(***************************************************************************)
Rat(n, d) == [num |-> n, den |-> d]
RatEq(a, b) == a.den # 0 /\ b.den # 0 /\ a.num * b.den = b.num * a.den

RECURSIVE MaxOf(_, _), MinOf(_, _)
MaxOf(s, col) ==
    IF Len(s) = 1 THEN s[1][col]
    ELSE LET m == MaxOf(Tail(s), col)
         IN IF s[1][col] >= m THEN s[1][col] ELSE m
MinOf(s, col) ==
    IF Len(s) = 1 THEN s[1][col]
    ELSE LET m == MinOf(Tail(s), col)
         IN IF s[1][col] <= m THEN s[1][col] ELSE m

(***************************************************************************)
(* The price-history pipeline of get_price_history.                        *)
(***************************************************************************)
TimeLabel(timeframe, index) ==
    IF timeframe = "24H" THEN StrfHM(index)
    ELSE IF timeframe = "7D" THEN StrfAHM(index)
    ELSE IF timeframe = "30D" THEN StrfBD(index)
    ELSE StrfBDY(index)

HistoryPoint(timeframe, row) ==
    [time |-> TimeLabel(timeframe, row.index),
     price |-> row.Close,
     date |-> isoformat(row.index)]

History(timeframe, rows) ==
    [i \in DOMAIN rows |-> HistoryPoint(timeframe, rows[i])]

\* index.strftime raises on an index that is not a timestamp
FormatRaises(frame) == Len(frame.rows) > 0 /\ frame.index_kind # "datetime"

\* variant: the len(df) > 0 test is missing, so iloc[-1] raises on an
\* empty frame
SummaryRaises_NoLenTest(frame) ==
    \/ frame.outcome = "returned" /\ Len(frame.rows) = 0
    \/ Len(frame.rows) > 0 /\ frame.rows[1].Close = 0

\* (current_price - open_price) / open_price raises ZeroDivisionError
SummaryRaises(frame) == Len(frame.rows) > 0 /\ frame.rows[1].Close = 0

\* variant: the change is taken relative to the current price
PercentChange_OverCurrent(rows) ==
    LET current_price == rows[Len(rows)].Close
        open_price == rows[1].Close
    IN Rat((current_price - open_price) * 100, current_price)

PercentChange(rows) ==
    LET current_price == rows[Len(rows)].Close
        open_price == rows[1].Close
    IN Rat((current_price - open_price) * 100, open_price)

Summary(rows) ==
    IF Len(rows) > 0
    THEN [current_price |-> rows[Len(rows)].Close,
          percent_change |-> PercentChange(rows),
          high_price |-> MaxOf(rows, "High"),
          low_price |-> MinOf(rows, "Low")]
    ELSE [current_price |-> 0,
          percent_change |-> Rat(0, 1),
          high_price |-> 0,
          low_price |-> 0]

RealPayload(ticker, timeframe, rows) ==
    LET s == Summary(rows)
    IN [ticker |-> ticker,
        current_price |-> s.current_price,
        percent_change |-> s.percent_change,
        high_price |-> s.high_price,
        low_price |-> s.low_price,
        history |-> History(timeframe, rows),
        timeframe |-> timeframe]

\* random.randint(-1000, 1000): a pseudo-random generator whose hidden
\* state is the seed (one of Seeds); the i-th draw of one request
points == 20
RandInt(seed, i) == ((seed * 7919 + (i + 1) * 104729) % 2001) - 1000

MockHistory(seed) ==
    [k \in 1..points |->
        [time |-> ToString(k - 1), price |-> 50000 + RandInt(seed, k - 1)]]

MockPayload(ticker, seed) ==
    [ticker |-> ticker,
     current_price |-> 50000,
     percent_change |-> Rat(5, 2),
     high_price |-> 52000,
     low_price |-> 48000,
     history |-> MockHistory(seed),
     is_mock |-> TRUE]

\* does the try block of get_price_history raise
PipelineRaises(handle, frame) ==
    \/ ~handle
    \/ frame.outcome = "raised"
    \/ FormatRaises(frame)
    \/ SummaryRaises(frame)

\* variant: the handle test sits outside the try block, so its 503 escapes
PriceHistoryResponse_Escapes503(handle, ticker, timeframe, frame, seed) ==
    IF ~handle
    THEN [status |-> 503, kind |-> "json",
          body |-> [detail |-> "Technical service unavailable"]]
    ELSE IF PipelineRaises(handle, frame)
    THEN [status |-> 200, kind |-> "json", body |-> MockPayload(ticker, seed)]
    ELSE [status |-> 200, kind |-> "json",
          body |-> RealPayload(ticker, timeframe, frame.rows)]

\* the except clause of get_price_history: HTTPException is an Exception,
\* so the 503 raised for a missing handle is caught here too
PriceHistoryResponse(handle, ticker, timeframe, frame, seed) ==
    IF PipelineRaises(handle, frame)
    THEN [status |-> 200, kind |-> "json", body |-> MockPayload(ticker, seed)]
    ELSE [status |-> 200, kind |-> "json",
          body |-> RealPayload(ticker, timeframe, frame.rows)]

FetchCall(ticker, config) ==
    [target |-> "technical_service.analyzer",
     method |-> "fetch_binance_ohlcv_with_fallback",
     symbol |-> ticker, interval |-> config.interval, limit |-> config.limit]

(***************************************************************************)
(* State after import: each handle is the service, or None when its        *)
(* constructor raised.  TRUE stands for a constructed service.             *)
(***************************************************************************)
NoRequest == [endpoint |-> "none"]
NoResult == [outcome |-> "not_called"]
NoResponse == [status |-> 0, kind |-> "none", body |-> <<>>]
NoStream == [state |-> "none", produced |-> <<>>, sent |-> <<>>]

Init ==
    /\ technical_service \in BOOLEAN
    /\ chat_service \in BOOLEAN
    /\ tokenomics_service \in BOOLEAN
    /\ news_service \in BOOLEAN
    /\ request = NoRequest
    /\ calls = <<>>
    /\ df = NoFrame
    /\ result = NoResult
    /\ response = NoResponse
    /\ stream = NoStream

(***************************************************************************)
(* GET /api/v1/price-history/{ticker}                                      *)
(***************************************************************************)
get_price_history(ticker, timeframe, seed) ==
    LET config == TimeframeConfig(timeframe)
    IN /\ request = NoRequest
       /\ \E fetched \in (IF technical_service
                          THEN FetchOutcomes(config.interval)
                          ELSE {NoFrame}) :
        /\ request' = [endpoint |-> "price-history", ticker |-> ticker,
                       timeframe |-> timeframe]
        /\ calls' = IF technical_service
                    THEN <<FetchCall(ticker, config)>>
                    ELSE <<>>
        /\ df' = fetched
        /\ result' = NoResult
        /\ response' = PriceHistoryResponse(technical_service, ticker,
                                            timeframe, fetched, seed)
        /\ stream' = NoStream
        /\ UNCHANGED handles

(***************************************************************************)
(* The three delegating GET endpoints.  None of them tests its handle: a   *)
(* call on None raises AttributeError inside the try block, which the      *)
(* except clause turns into a 500.                                         *)
(***************************************************************************)
ServiceOutcomes ==
    {[outcome |-> "raised", message |-> "upstream failed"],
     [outcome |-> "returned", value |-> [summary |-> "ok"]]}

DelegateReply(handle, attr, outcome) ==
    IF ~handle
    THEN [status |-> 500, kind |-> "json",
          body |-> [detail |-> "'NoneType' object has no attribute '"
                               \o attr \o "'"]]
    ELSE IF outcome.outcome = "raised"
    THEN [status |-> 500, kind |-> "json",
          body |-> [detail |-> outcome.message]]
    ELSE [status |-> 200, kind |-> "json", body |-> outcome.value]

Delegate(handle, req, call, attr) ==
    /\ request = NoRequest
    /\ \E outcome \in (IF handle THEN ServiceOutcomes ELSE {NoResult}) :
        /\ request' = req
        /\ calls' = IF handle THEN <<call>> ELSE <<>>
        /\ df' = NoFrame
        /\ result' = outcome
        /\ response' = DelegateReply(handle, attr, outcome)
        /\ stream' = NoStream
        /\ UNCHANGED handles

get_technical_analysis(ticker, interval) ==
    Delegate(technical_service,
             [endpoint |-> "technical", ticker |-> ticker,
              interval |-> interval],
             [target |-> "technical_service", method |-> "analyze",
              args |-> <<ticker, interval>>],
             "analyze")

get_tokenomics(coin_id, investment_amount) ==
    Delegate(tokenomics_service,
             [endpoint |-> "tokenomics", coin_id |-> coin_id,
              investment_amount |-> investment_amount],
             [target |-> "tokenomics_service", method |-> "analyze",
              args |-> <<coin_id, investment_amount>>],
             "analyze")

get_news(ticker) ==
    Delegate(news_service,
             [endpoint |-> "news", ticker |-> ticker],
             [target |-> "news_service", method |-> "get_news_sentiment",
              args |-> <<ticker>>],
             "get_news_sentiment")

(***************************************************************************)
(* POST /api/v1/chat.  The route declares no response model, so the dict   *)
(* process_message returns goes back to the client as it is.               *)
(***************************************************************************)
ChatRequests ==
    [message : Messages, user_name : UserNames, user_age : UserAges,
     conversation_history : Histories]

\* data_used is a set of <<key, value>> pairs
AssistantResults ==
    {[response |-> "answer"],
     [response |-> "answer", tool_calls |-> <<"technical">>],
     [response |-> "answer", data_used |-> {<<"price", "1">>}],
     [response |-> "answer", tool_calls |-> <<>>, data_used |-> {}],
     [response |-> "answer", tool_calls |-> <<"technical">>,
      data_used |-> {<<"price", "1">>}]}

ProcessOutcomes ==
    {[outcome |-> "raised", message |-> "assistant failed"]} \cup
    {[outcome |-> "returned", value |-> v] : v \in AssistantResults}

AssistantCall(method, req) ==
    [target |-> "chat_service", method |-> method,
     message |-> req.message, user_name |-> req.user_name,
     user_age |-> req.user_age,
     conversation_history |-> req.conversation_history]

ChatReply(handle, outcome) ==
    IF ~handle
    THEN [status |-> 503, kind |-> "json",
          body |-> [detail |->
                      "Chat service unavailable (initialization failed)"]]
    ELSE IF outcome.outcome = "raised"
    THEN [status |-> 500, kind |-> "json",
          body |-> [detail |-> outcome.message]]
    ELSE [status |-> 200, kind |-> "json", body |-> outcome.value]

chat(req) ==
    /\ request = NoRequest
    /\ \E outcome \in (IF chat_service THEN ProcessOutcomes ELSE {NoResult}) :
        /\ request' = [endpoint |-> "chat"] @@ req
        /\ calls' = IF chat_service
                    THEN <<AssistantCall("process_message", req)>>
                    ELSE <<>>
        /\ df' = NoFrame
        /\ result' = outcome
        /\ response' = ChatReply(chat_service, outcome)
        /\ stream' = NoStream
        /\ UNCHANGED handles

(***************************************************************************)
(* POST /api/v1/chat/stream.  stream_message(...) is called once and what  *)
(* it returns becomes the body iterator of a StreamingResponse; the        *)
(* response then pulls one chunk at a time and sends it on.                *)
(***************************************************************************)
StreamOutcomes ==
    {[outcome |-> "raised", message |-> "assistant failed"],
     [outcome |-> "generator"]}

\* variant: the handle test is missing and the call on None is caught
ChatStreamReply_NoHandleTest(handle, outcome) ==
    IF ~handle
    THEN [status |-> 500, kind |-> "json",
          body |-> [detail |->
                      "'NoneType' object has no attribute 'stream_message'"]]
    ELSE IF outcome.outcome = "raised"
    THEN [status |-> 500, kind |-> "json",
          body |-> [detail |-> outcome.message]]
    ELSE [status |-> 200, kind |-> "stream",
          body |-> [media_type |-> "text/event-stream"]]

ChatStreamReply(handle, outcome) ==
    IF ~handle
    THEN [status |-> 503, kind |-> "json",
          body |-> [detail |-> "Chat service unavailable"]]
    ELSE IF outcome.outcome = "raised"
    THEN [status |-> 500, kind |-> "json",
          body |-> [detail |-> outcome.message]]
    ELSE [status |-> 200, kind |-> "stream",
          body |-> [media_type |-> "text/event-stream"]]

chat_stream(req) ==
    /\ request = NoRequest
    /\ \E outcome \in (IF chat_service THEN StreamOutcomes ELSE {NoResult}) :
        /\ request' = [endpoint |-> "chat/stream"] @@ req
        /\ calls' = IF chat_service
                    THEN <<AssistantCall("stream_message", req)>>
                    ELSE <<>>
        /\ df' = NoFrame
        /\ result' = outcome
        /\ response' = ChatStreamReply(chat_service, outcome)
        /\ stream' = IF outcome.outcome = "generator"
                     THEN [state |-> "pulling", produced |-> <<>>,
                           sent |-> <<>>]
                     ELSE NoStream
        /\ UNCHANGED handles

\* the response asks the generator for its next chunk and gets one
StreamYield(chunk) ==
    /\ stream.state = "pulling"
    /\ Len(stream.produced) < MaxChunks
    /\ stream' = [stream EXCEPT !.state = "sending",
                                !.produced = Append(@, chunk)]
    /\ UNCHANGED <<handles, request, calls, df, result, response>>

\* variant: the newest chunk goes out ahead of the earlier ones
Forward_Prepend(sent, chunk) == <<chunk>> \o sent

Forward(sent, chunk) == Append(sent, chunk)

\* the chunk just pulled is written to the client
StreamSend ==
    /\ stream.state = "sending"
    /\ stream' = [stream EXCEPT
                    !.state = "pulling",
                    !.sent = Forward(@, stream.produced[Len(stream.produced)])]
    /\ UNCHANGED <<handles, request, calls, df, result, response>>

\* the generator is exhausted: the response body ends
StreamComplete ==
    /\ stream.state = "pulling"
    /\ stream' = [stream EXCEPT !.state = "closed"]
    /\ UNCHANGED <<handles, request, calls, df, result, response>>

\* the response has gone out in full and the request's locals are dropped
RequestDone ==
    /\ request # NoRequest
    /\ stream.state \in {"none", "closed"}
    /\ request' = NoRequest
    /\ calls' = <<>>
    /\ df' = NoFrame
    /\ result' = NoResult
    /\ response' = NoResponse
    /\ stream' = NoStream
    /\ UNCHANGED handles

Next ==
    \/ \E ticker \in Tickers, timeframe \in Timeframes, seed \in Seeds :
         get_price_history(ticker, timeframe, seed)
    \/ \E ticker \in Tickers, interval \in Intervals :
         get_technical_analysis(ticker, interval)
    \/ \E coin_id \in CoinIds, investment_amount \in InvestmentAmounts :
         get_tokenomics(coin_id, investment_amount)
    \/ \E ticker \in Tickers : get_news(ticker)
    \/ \E req \in ChatRequests : chat(req)
    \/ \E req \in ChatRequests : chat_stream(req)
    \/ \E chunk \in Chunks : StreamYield(chunk)
    \/ StreamSend
    \/ StreamComplete
    \/ RequestDone

Spec == Init /\ [][Next]_vars

(***************************************************************************)
(* Properties.                                                             *)
(***************************************************************************)

\* C1: get_price_history always answers 200; the payload is the mock one
\* (is_mock = TRUE, exactly 20 history points) exactly when a step of the
\* pipeline raised (handle missing, fetch raised, label formatting raised,
\* statistics raised), and a real payload without is_mock otherwise.
C1_AlwaysOk ==
    request.endpoint = "price-history" =>
        LET stepRaised ==
                \/ ~technical_service
                \/ df.outcome = "raised"
                \/ /\ df.outcome = "returned"
                   /\ Len(df.rows) > 0
                   /\ \/ df.index_kind # "datetime"
                      \/ df.rows[1].Close = 0
        IN /\ response.status = 200
           /\ stepRaised =>
                /\ "is_mock" \in DOMAIN response.body
                /\ response.body.is_mock = TRUE
                /\ Len(response.body.history) = 20
           /\ ~stepRaised =>
                /\ "is_mock" \notin DOMAIN response.body
                /\ response.body.timeframe = request.timeframe
                /\ Len(response.body.history) = Len(df.rows)

\* the fetch raised for BTCUSDT / 7D and the client got the mock payload
C1_Witness ==
    /\ request.endpoint = "price-history"
    /\ request.ticker = "BTCUSDT"
    /\ request.timeframe = "7D"
    /\ df.outcome = "raised"
    /\ response.status = 200
    /\ "is_mock" \in DOMAIN response.body
    /\ Len(response.body.history) = 20

\* C2: with chat_service absent, POST /chat and POST /chat/stream answer
\* 503 and the assistant is not invoked.
C2_ChatUnavailable ==
    (request.endpoint \in {"chat", "chat/stream"} /\ ~chat_service) =>
        /\ response.status = 503
        /\ "is_mock" \notin DOMAIN response.body
        /\ calls = <<>>
        /\ stream.state = "none"

C2_Witness ==
    /\ request.endpoint = "chat/stream"
    /\ ~chat_service
    /\ response.status = 503

\* C3: every endpoint whose collaborator handle is absent answers 503.
C3_Unavailable503 ==
    LET handleOf ==
            ("technical" :> technical_service) @@
            ("price-history" :> technical_service) @@
            ("tokenomics" :> tokenomics_service) @@
            ("news" :> news_service) @@
            ("chat" :> chat_service) @@
            ("chat/stream" :> chat_service)
    IN (request.endpoint \in DOMAIN handleOf /\ ~handleOf[request.endpoint])
          => response.status = 503

\* C4: the fetch is called once, with the request's ticker and the pair
\* 24H -> (15m, 96), 7D -> (1h, 168), 30D -> (4h, 180), 1Y -> (1d, 365),
\* anything else -> (15m, 96).
C4_Resolution ==
    (request.endpoint = "price-history" /\ technical_service) =>
        LET tf == request.timeframe
            pair == IF tf = "7D" THEN <<"1h", 168>>
                    ELSE IF tf = "30D" THEN <<"4h", 180>>
                    ELSE IF tf = "1Y" THEN <<"1d", 365>>
                    ELSE <<"15m", 96>>
        IN /\ Len(calls) = 1
           /\ calls[1].method = "fetch_binance_ohlcv_with_fallback"
           /\ calls[1].symbol = request.ticker
           /\ calls[1].interval = pair[1]
           /\ calls[1].limit = pair[2]

\* an unrecognised timeframe was resolved to the 24H pair
C4_Witness ==
    /\ request.endpoint = "price-history"
    /\ request.timeframe = "5Y"
    /\ Len(calls) = 1
    /\ calls[1].interval = "15m"
    /\ calls[1].limit = 96
    /\ df.outcome = "returned"

\* C5 as stated: for every non-empty series the fetch returns, the response
\* carries last close, (last - first) / first * 100, max high and min low.
C5_StatsEverySeries ==
    (request.endpoint = "price-history" /\ df.outcome = "returned"
       /\ Len(df.rows) > 0) =>
        LET rows == df.rows
            first == rows[1].Close
            last == rows[Len(rows)].Close
            b == response.body
        IN /\ b.current_price = last
           /\ RatEq(b.percent_change, Rat((last - first) * 100, first))
           /\ \A i \in DOMAIN rows : rows[i].High <= b.high_price
           /\ \E i \in DOMAIN rows : rows[i].High = b.high_price
           /\ \A i \in DOMAIN rows : rows[i].Low >= b.low_price
           /\ \E i \in DOMAIN rows : rows[i].Low = b.low_price

\* C5 amended: the same, for every non-empty series whose first close is
\* not zero and whose index formats as a timestamp.
C5_Stats ==
    (request.endpoint = "price-history" /\ df.outcome = "returned"
       /\ Len(df.rows) > 0 /\ df.index_kind = "datetime"
       /\ df.rows[1].Close # 0) =>
        LET rows == df.rows
            first == rows[1].Close
            last == rows[Len(rows)].Close
            b == response.body
        IN /\ b.current_price = last
           /\ RatEq(b.percent_change, Rat((last - first) * 100, first))
           /\ \A i \in DOMAIN rows : rows[i].High <= b.high_price
           /\ \E i \in DOMAIN rows : rows[i].High = b.high_price
           /\ \A i \in DOMAIN rows : rows[i].Low >= b.low_price
           /\ \E i \in DOMAIN rows : rows[i].Low = b.low_price

\* two candles, the price fell from 1 to 0, highs and lows differ
C5_Witness ==
    /\ request.endpoint = "price-history"
    /\ df.outcome = "returned"
    /\ df.index_kind = "datetime"
    /\ Len(df.rows) = 2
    /\ df.rows[1].Close = 1
    /\ df.rows[2].Close = 0
    /\ df.rows[1].High # df.rows[2].High
    /\ df.rows[1].Low # df.rows[2].Low
    /\ "is_mock" \notin DOMAIN response.body
    /\ response.body.percent_change.num = -100

\* C6: an empty series gives a real payload, all four figures zero and an
\* empty history.
C6_EmptySeries ==
    (request.endpoint = "price-history" /\ df.outcome = "returned"
       /\ Len(df.rows) = 0) =>
        /\ response.status = 200
        /\ "is_mock" \notin DOMAIN response.body
        /\ response.body.current_price = 0
        /\ RatEq(response.body.percent_change, Rat(0, 1))
        /\ response.body.high_price = 0
        /\ response.body.low_price = 0
        /\ response.body.history = <<>>

C6_Witness ==
    /\ request.endpoint = "price-history"
    /\ df.outcome = "returned"
    /\ df.rows = <<>>
    /\ response.status = 200
    /\ response.body.history = <<>>
    /\ response.body.current_price = 0

\* C7: a real response has one history point per candle, in order, with the
\* candle's close and its timestamp; parsed back, the dates of an ascending
\* series are strictly increasing.
C7_HistoryOrder ==
    (request.endpoint = "price-history"
       /\ "is_mock" \notin DOMAIN response.body) =>
        LET rows == df.rows
            h == response.body.history
        IN /\ Len(h) = Len(rows)
           /\ \A i \in DOMAIN h :
                /\ h[i].price = rows[i].Close
                /\ ParseIso(h[i].date) = rows[i].index
           /\ (\A i \in 2..Len(rows) : rows[i].index > rows[i - 1].index)
                => \A i \in 2..Len(h) :
                     ParseIso(h[i].date) > ParseIso(h[i - 1].date)

\* a real two-point history that crosses from 2023 into 2024
C7_Witness ==
    /\ request.endpoint = "price-history"
    /\ "is_mock" \notin DOMAIN response.body
    /\ Len(response.body.history) = 2
    /\ response.body.history[1].date[1] = 2023
    /\ response.body.history[2].date[1] = 2024

\* C8: the mock payload has the top-level fields of a real response plus the
\* marker, and its history entries have the fields time, price and date.
C8_MockShape ==
    (request.endpoint = "price-history"
       /\ "is_mock" \in DOMAIN response.body) =>
        /\ DOMAIN response.body \ {"is_mock"} =
             {"ticker", "current_price", "percent_change", "high_price",
              "low_price", "history", "timeframe"}
        /\ \A i \in DOMAIN response.body.history :
             DOMAIN response.body.history[i] = {"time", "price", "date"}

\* C9: the stream carries the assistant's chunks in order, each once, and
\* is closed only with every produced chunk sent; stream_message was called
\* once with the request's fields.
C9_StreamPassThrough ==
    stream.state # "none" =>
        /\ request.endpoint = "chat/stream"
        /\ response.status = 200
        /\ calls = <<[target |-> "chat_service", method |-> "stream_message",
                      message |-> request.message,
                      user_name |-> request.user_name,
                      user_age |-> request.user_age,
                      conversation_history |->
                          request.conversation_history]>>
        /\ Len(stream.sent) <= Len(stream.produced)
        /\ \A i \in DOMAIN stream.sent : stream.sent[i] = stream.produced[i]
        /\ stream.state = "sending"
             => Len(stream.sent) = Len(stream.produced) - 1
        /\ stream.state \in {"pulling", "closed"}
             => stream.sent = stream.produced

C9_Witness ==
    /\ stream.state = "closed"
    /\ stream.produced = <<"a", "b">>
    /\ stream.sent = <<"a", "b">>
    /\ request.user_name = "Ann"

\* C10: a successful POST /chat calls the assistant once and answers with
\* response, tool_calls and data_used, the last two empty when the
\* assistant's result has none.
C10_ChatShape ==
    (request.endpoint = "chat" /\ chat_service
       /\ result.outcome = "returned") =>
        /\ Len(calls) = 1
        /\ response.status = 200
        /\ DOMAIN response.body = {"response", "tool_calls", "data_used"}
        /\ response.body.response = result.value.response
        /\ "tool_calls" \notin DOMAIN result.value
             => response.body.tool_calls = <<>>
        /\ "data_used" \notin DOMAIN result.value
             => response.body.data_used = {}
====
